---- MODULE Spec2Model ----
(***************************************************************************)
(* Verification model of the vaccinated epidemic model sensitivity code:   *)
(*   src/src/model.py          the direct right-hand side (numpy)          *)
(*   src/src/model/model.py    the direct and matrix right-hand sides      *)
(*   src/sampler_npi.py, src/src/sampler_vaccinated.py   the LHS samplers  *)
(*   src/src/simulation.py     the simulation object and its scenarios     *)
(*                                                                         *)
(* Floating point values are modelled as exact extended rationals          *)
(* [n |-> numerator, d |-> denominator >= 0] in lowest terms; d = 0 holds  *)
(* the IEEE special values: n = 1 is +inf, n = -1 is -inf, n = 0 is nan.   *)
(* Rounding is not modelled.                                               *)
(***************************************************************************)
EXTENDS Integers, Sequences, FiniteSets, TLC

VARIABLES
  \* src/src/model.py, VaccinatedModel (numpy) under a fixed-step solver
  ps,          \* the parameter dictionary handed to get_model
  xs,          \* the flat state vector
  rhs,         \* the last get_model call: its arguments, indicator and result
  nsteps,      \* solver steps taken
  \* src/src/model/model.py, ModelEq under odeint (get_solution_torch_test)
  mps,         \* self.ps
  mctor,       \* how the constructor ended: "ok" or "KeyError"
  A, T, B,     \* self.A, self.T, self.B
  activated,   \* the vaccination branch of forward has run
  fcall,       \* the last forward call: its arguments and result
  mono,        \* every forward call so far came at a time >= the call before
  traj,        \* the trajectory odeint has built
  tgrid,       \* the time grid t handed to odeint
  sol,         \* "running" inside odeint, "returned" once the trajectory is handed back
  \* src/sampler_npi.py, VaccinatedSampler
  params,          \* the shared parameter dictionary (r0generator.parameters)
  params0,         \* its value when the constructor returned
  lhs_boundaries,  \* self.lhs_boundaries
  base_r0,         \* sim_state["base_r0"]
  spc,             \* the sampler's position: new, constructed, evaluating, done
  lhs_drawn,       \* run's lhs_table as drawn
  results,         \* run's results before sorting
  sorted,          \* run's local lhs_table and sim_output once they are sorted
  lhs_table,       \* self.lhs_table
  sim_output,      \* self.sim_output
  recheck,         \* the last get_output call made after run
  \* src/src/simulation.py, SimulationVaccinated.run_sampling
  sim,             \* the simulation object or the sampler: position, target variable, objective
  runs             \* one record per sampler constructed

rhsVars == <<ps, xs, rhs, nsteps>>

eqVars == <<mps, mctor, A, T, B, activated, fcall, mono, traj, tgrid, sol>>

smpVars == <<params, params0, lhs_boundaries, base_r0, spc, lhs_drawn, results,
             sorted, lhs_table, sim_output, recheck>>

simVars == <<sim, runs>>

vars == <<rhsVars, eqVars, smpVars, simVars>>

----------------------------------------------------------------------------
(* Bounds of the model *)

NAge == 3
MaxStages == 2
MaxSteps == 2
MaxAdvance == 1
MaxTime == 4
NSamples == 2
MaxDenominator == 32

Ages == 1..NAge

Times == 0..MaxTime

----------------------------------------------------------------------------
(* Extended rational arithmetic standing for float arithmetic *)

RECURSIVE Gcd(_, _)
Gcd(a, b) == IF b = 0 THEN a ELSE Gcd(b, a % b)

Abs(x) == IF x < 0 THEN -x ELSE x

Sgn(x) == IF x > 0 THEN 1 ELSE IF x < 0 THEN -1 ELSE 0

Norm(n, d) ==
  IF d = 0 THEN [n |-> Sgn(n), d |-> 0]
  ELSE LET g == Gcd(Abs(n), Abs(d))
       IN [n |-> (Sgn(d) * n) \div g, d |-> Abs(d) \div g]

Q(k) == [n |-> k, d |-> 1]

Frac(n, d) == Norm(n, d)

NaN == [n |-> 0, d |-> 0]

IsFinite(a) == a.d # 0

FNeg(a) == [n |-> -a.n, d |-> a.d]

FAdd(a, b) ==
  IF a.d = 0 /\ b.d = 0 THEN (IF a = b THEN a ELSE NaN)
  ELSE IF a.d = 0 THEN a
  ELSE IF b.d = 0 THEN b
  ELSE LET g == Gcd(a.d, b.d)
       IN Norm(a.n * (b.d \div g) + b.n * (a.d \div g), (a.d \div g) * b.d)

FSub(a, b) == FAdd(a, FNeg(b))

FMul(a, b) ==
  IF a.d = 0 \/ b.d = 0 THEN Norm(a.n * b.n, 0)
  ELSE LET g1 == Gcd(Abs(a.n), b.d)
           g2 == Gcd(Abs(b.n), a.d)
       IN Norm((a.n \div g1) * (b.n \div g2), (a.d \div g2) * (b.d \div g1))

FInv(b) == IF b.n = 0 THEN [n |-> (IF b.d = 0 THEN 0 ELSE 1), d |-> 0]
           ELSE Norm(b.d, b.n)

FDiv(a, b) == FMul(a, FInv(b))

FLess(a, b) == a # NaN /\ b # NaN /\ a # b /\
               (IF a.d = 0 THEN a.n < 0
                ELSE IF b.d = 0 THEN b.n > 0
                ELSE a.n * b.d < b.n * a.d)

FLeq(a, b) == a # NaN /\ b # NaN /\ (a = b \/ FLess(a, b))

(* elementwise operations on per-age vectors (numpy / torch broadcasting) *)
VAdd(u, v) == [a \in DOMAIN u |-> FAdd(u[a], v[a])]
VSub(u, v) == [a \in DOMAIN u |-> FSub(u[a], v[a])]
VMul(u, v) == [a \in DOMAIN u |-> FMul(u[a], v[a])]
VDiv(u, v) == [a \in DOMAIN u |-> FDiv(u[a], v[a])]
VNeg(u) == [a \in DOMAIN u |-> FNeg(u[a])]
VScale(c, u) == [a \in DOMAIN u |-> FMul(c, u[a])]

RECURSIVE FSum(_, _)
FSum(f, S) == IF S = {} THEN Q(0)
              ELSE LET x == CHOOSE z \in S : \A w \in S : z <= w
                   IN FAdd(f[x], FSum(f, S \ {x}))

RECURSIVE VSumSeq(_, _)
VSumSeq(rows, zero) == IF rows = <<>> THEN zero
                       ELSE VAdd(rows[1], VSumSeq(Tail(rows), zero))

VZero(n) == [a \in 1..n |-> Q(0)]

----------------------------------------------------------------------------
(* src/src/model.py: the direct right-hand side *)

population == [a \in Ages |-> Q(2 ^ (a + 1))]

(* symmetric, of rank one: the dominant eigenvalue of a weighted copy is its trace *)
contact_matrix == [b \in Ages |-> [a \in Ages |-> Q(a * b)]]

get_n_states(n_classes, comp_name) == [k \in 1..n_classes |-> <<comp_name, k - 1>>]

base_compartments == << <<"s", 0>>, <<"r", 0>>, <<"d", 0>> >>

get_n_compartments(p) ==
  get_n_states(p.n_e_states, "e") \o get_n_states(p.n_i_states, "i")
    \o get_n_states(p.n_ic_states, "ic") \o get_n_states(p.n_v_states, "v")

compartments(p) == base_compartments \o get_n_compartments(p)

(* EpidemicModelBase: name -> 0-based position in the compartment list *)
c_idx(comps) == [name \in {comps[k] : k \in 1..Len(comps)} |->
                   (CHOOSE k \in 1..Len(comps) : comps[k] = name) - 1]

(* xs.reshape(-1, n_age) raises ValueError when the length of xs is not a
   multiple of n_age *)
reshape_raises(v, n_age) == Len(v) % n_age # 0

(* xs.reshape(-1, n_age): row c (0-based) holds xs[c*n_age .. c*n_age+n_age-1] *)
reshape(v, n_age) ==
  IF reshape_raises(v, n_age) THEN "ValueError"
  ELSE [c \in 1..(Len(v) \div n_age) |-> [a \in 1..n_age |-> v[(c - 1) * n_age + a]]]

(* val[lo:hi] of Python, 0-based, hi exclusive *)
PySlice(val, lo, hi) == SubSeq(val, lo + 1, hi)

get_n_state_val(p, val) ==
  LET e_end == 1 + p.n_e_states
      i_end == e_end + p.n_i_states
      ic_end == i_end + p.n_ic_states
      v_end == ic_end + p.n_v_states
  IN [e |-> PySlice(val, 1, e_end),
      i |-> PySlice(val, e_end, i_end),
      ic |-> PySlice(val, i_end, ic_end),
      v |-> PySlice(val, ic_end, v_end)]

get_vacc_bool_closed(t, p) == IF p.t_start <= t /\ t < p.t_start + p.T THEN 1 ELSE 0

get_vacc_bool(t, p) == IF p.t_start < t /\ t < p.t_start + p.T THEN 1 ELSE 0

(* returns None for a chain of fewer than two states *)
get_transition_state_eq(states, val, param) ==
  IF Len(states) < 2 THEN [none |-> TRUE, eq |-> <<>>]
  ELSE [none |-> FALSE,
        eq |-> [st \in {states[k] : k \in 2..Len(states)} |->
                  LET idx == CHOOSE k \in 2..Len(states) : states[k] = st
                  IN VScale(param, VSub(val[idx - 1], val[idx]))]]

Last(seq) == seq[Len(seq)]

(* dict.update(other): TypeError when other is None *)
DictUpdate(first, rest) ==
  IF rest.none THEN [raised |-> TRUE, eq |-> <<>>]
  ELSE [raised |-> FALSE,
        eq |-> [k \in DOMAIN first \cup DOMAIN rest.eq |->
                  IF k \in DOMAIN rest.eq THEN rest.eq[k] ELSE first[k]]]

Infection(p, s, transmission) ==
  VMul(VMul(p.susc, VDiv(s, population)), transmission)

Vaccination(p, s, r, vacc) ==
  VScale(Q(vacc), VDiv(VMul(VScale(p.rho, p.v), s), VAdd(s, r)))

get_e_eq(val, p, s, transmission) ==
  LET e_states == get_n_states(p.n_e_states, "e")
      e_0 == VSub(Infection(p, s, transmission), VScale(p.alpha, val[1]))
  IN DictUpdate([k \in {<<"e", 0>>} |-> e_0],
                get_transition_state_eq(e_states, val, p.alpha))

get_i_eq(n_state_val, p) ==
  LET e_end == Last(n_state_val.e)
      val == n_state_val.i
      i_states == get_n_states(p.n_i_states, "i")
      i_0 == VSub(VScale(p.alpha, e_end), VScale(p.gamma, val[1]))
  IN DictUpdate([k \in {<<"i", 0>>} |-> i_0],
                get_transition_state_eq(i_states, val, p.gamma))

get_ic_eq(n_state_val, p) ==
  LET i_end == Last(n_state_val.i)
      val == n_state_val.ic
      ic_states == get_n_states(p.n_ic_states, "ic")
      ic_0 == VSub(VScale(FMul(FMul(p.xi, p.h), p.gamma), i_end),
                   VScale(p.gamma_c, val[1]))
  IN DictUpdate([k \in {<<"ic", 0>>} |-> ic_0],
                get_transition_state_eq(ic_states, val, p.gamma_c))

get_v_eq(val, vacc, p, s, r) ==
  LET v_states == get_n_states(p.n_v_states, "v")
      v_0 == VSub(Vaccination(p, s, r, vacc), VScale(p.psi, val[1]))
  IN DictUpdate([k \in {<<"v", 0>>} |-> v_0],
                get_transition_state_eq(v_states, val, p.psi))

(* EpidemicModelBase.get_array_from_dict: the entries in compartment order *)
RECURSIVE Flatten(_, _)
Flatten(rows, n_age) ==
  IF rows = <<>> THEN <<>>
  ELSE [a \in 1..n_age |-> rows[1][a]] \o Flatten(Tail(rows), n_age)

get_array_from_dict(comp_dict, comps) ==
  Flatten([k \in 1..Len(comps) |-> comp_dict[comps[k]]], NAge)

get_model_eq_dict(state, t, p, cm) ==
  LET comps == compartments(p)
      idx == c_idx(comps)
      val == reshape(state, NAge)
      n_state_val == get_n_state_val(p, val)
      s == val[idx[<<"s", 0>>] + 1]
      r == val[idx[<<"r", 0>>] + 1]
      i == VSumSeq(n_state_val.i, VZero(NAge))
      transmission == [a \in Ages |->
                         FMul(p.beta_0, FSum([b \in Ages |-> FMul(i[b], cm[b][a])], Ages))]
      vacc == get_vacc_bool(t, p)
      base == [k \in {<<"s", 0>>, <<"r", 0>>, <<"d", 0>>} |->
                 IF k = <<"s", 0>> THEN
                   VAdd(VSub(VNeg(Infection(p, s, transmission)),
                             Vaccination(p, s, r, vacc)),
                        VScale(p.psi, Last(n_state_val.v)))
                 ELSE IF k = <<"r", 0>> THEN
                   VAdd(VScale(FMul(FSub(Q(1), FMul(p.h, p.xi)), p.gamma),
                               Last(n_state_val.i)),
                        VScale(FMul(FSub(Q(1), p.mu), p.gamma_c),
                               Last(n_state_val.ic)))
                 ELSE VScale(FMul(p.mu, p.gamma_c), Last(n_state_val.ic))]
      e_eq == get_e_eq(n_state_val.e, p, s, transmission)
      i_eq == get_i_eq(n_state_val, p)
      ic_eq == get_ic_eq(n_state_val, p)
      v_eq == get_v_eq(n_state_val.v, vacc, p, s, r)
  IN IF reshape_raises(state, NAge)
        \/ e_eq.raised \/ i_eq.raised \/ ic_eq.raised \/ v_eq.raised
     THEN [raised |-> TRUE, eq |-> <<>>]
     ELSE [raised |-> FALSE,
           eq |-> [k \in DOMAIN base \cup DOMAIN e_eq.eq \cup DOMAIN i_eq.eq
                          \cup DOMAIN ic_eq.eq \cup DOMAIN v_eq.eq |->
                     IF k \in DOMAIN v_eq.eq THEN v_eq.eq[k]
                     ELSE IF k \in DOMAIN ic_eq.eq THEN ic_eq.eq[k]
                     ELSE IF k \in DOMAIN i_eq.eq THEN i_eq.eq[k]
                     ELSE IF k \in DOMAIN e_eq.eq THEN e_eq.eq[k]
                     ELSE base[k]]]

get_model(state, t, p, cm) ==
  LET d == get_model_eq_dict(state, t, p, cm)
  IN IF d.raised THEN [raised |-> TRUE, out |-> <<>>]
     ELSE [raised |-> FALSE, out |-> get_array_from_dict(d.eq, compartments(p))]

----------------------------------------------------------------------------
(* src/src/model/model.py: VaccinatedModel (torch), the direct right-hand side *)

n_state_comp == <<"e", "i", "h", "ic", "icr", "v">>

n_of(p, comp) ==
  CASE comp = "e" -> p.n_e [] comp = "i" -> p.n_i [] comp = "h" -> p.n_h
    [] comp = "ic" -> p.n_ic [] comp = "icr" -> p.n_icr [] comp = "v" -> p.n_v

RECURSIVE ConcatStates(_, _)
ConcatStates(p, comps) ==
  IF comps = <<>> THEN <<>>
  ELSE get_n_states(n_of(p, comps[1]), comps[1]) \o ConcatStates(p, Tail(comps))

torch_get_n_compartments(p) == ConcatStates(p, n_state_comp)

torch_compartments(p) ==
  << <<"s", 0>> >> \o torch_get_n_compartments(p) \o << <<"r", 0>>, <<"d", 0>> >>

(* slices of val taken from row 1 on, in the order of n_state_comp *)
torch_get_n_state_val(p, val) ==
  LET start(k) == 1 + FSum([m \in 1..6 |-> Q(n_of(p, n_state_comp[m]))], 1..(k - 1)).n
  IN [comp \in {n_state_comp[k] : k \in 1..6} |->
        LET k == CHOOSE m \in 1..6 : n_state_comp[m] = comp
        IN PySlice(val, start(k), start(k) + n_of(p, comp))]

torch_get_vacc_bool(t, p) == IF p.t_start < t /\ t < p.t_start + p.T THEN 1 ELSE 0

(* ModelEq.get_vacc_bool *)
ModelEq_get_vacc_bool(t, p) == IF p.t_start < t /\ t < p.t_start + p.T THEN 1 ELSE 0

(* EquationGenerator.evaluate_eqns: the equations of the model, one row per
   compartment in the order of the compartment list *)
ErlangChain(inflow, rate, rows) ==
  [k \in 1..Len(rows) |->
     VSub(IF k = 1 THEN inflow ELSE VScale(rate, rows[k - 1]), VScale(rate, rows[k]))]

evaluate_eqns(p, n_state_val, s, r, transmission, vacc) ==
  LET infection == VMul(VMul(p.susc, VDiv(s, population)), transmission)
      vaccination == VScale(Q(vacc), VDiv(VMul(VScale(p.rho, p.v), s), VAdd(s, r)))
      e_end == Last(n_state_val["e"])
      i_end == Last(n_state_val["i"])
      h_end == Last(n_state_val["h"])
      ic_end == Last(n_state_val["ic"])
      icr_end == Last(n_state_val["icr"])
      v_end == Last(n_state_val["v"])
      s_eq == VAdd(VSub(VNeg(infection), vaccination), VScale(p.psi, v_end))
      r_eq == VAdd(VAdd(VScale(FMul(FSub(Q(1), p.h), p.gamma), i_end),
                        VScale(p.gamma_h, h_end)),
                   VScale(p.gamma_cr, icr_end))
      d_eq == VScale(FMul(p.mu, p.gamma_c), ic_end)
  IN <<s_eq>>
       \o ErlangChain(infection, p.alpha, n_state_val["e"])
       \o ErlangChain(VScale(p.alpha, e_end), p.gamma, n_state_val["i"])
       \o ErlangChain(VScale(FMul(FMul(FSub(Q(1), p.xi), p.h), p.gamma), i_end),
                      p.gamma_h, n_state_val["h"])
       \o ErlangChain(VScale(FMul(FMul(p.xi, p.h), p.gamma), i_end),
                      p.gamma_c, n_state_val["ic"])
       \o ErlangChain(VScale(FMul(FSub(Q(1), p.mu), p.gamma_c), ic_end),
                      p.gamma_cr, n_state_val["icr"])
       \o ErlangChain(vaccination, p.psi, n_state_val["v"])
       \o <<r_eq, d_eq>>

(* torch.Tensor.reshape(-1, n_age): the rows of reshape, RuntimeError when the
   length of xs is not a multiple of n_age *)
torch_reshape(v, n_age) ==
  IF reshape_raises(v, n_age) THEN "RuntimeError" ELSE reshape(v, n_age)

torch_get_model(t, state, p, cm) ==
  LET val == torch_reshape(state, NAge)
      n_state_val == torch_get_n_state_val(p, val)
      s == val[1]
      r == val[Len(val) - 1]
      i == VSumSeq(n_state_val["i"], VZero(NAge))
      transmission == [a \in Ages |->
                         FMul(p.beta, FSum([b \in Ages |-> FMul(i[b], cm[b][a])], Ages))]
      vacc == torch_get_vacc_bool(t, p)
  IN IF reshape_raises(state, NAge) THEN "RuntimeError"
     ELSE Flatten(evaluate_eqns(p, n_state_val, s, r, transmission, vacc), NAge)

(* ModelFun.forward *)
ModelFun_forward(t, state, p, cm) == torch_get_model(t, state, p, cm)

----------------------------------------------------------------------------
(* src/src/model/model.py: ModelEq, the matrix right-hand side.
   Matrices are indexed from 0 as in the code; state vectors from 1. *)

n_comp(p) == Len(torch_compartments(p))

s_mtx(p) == NAge * n_comp(p)

torch_c_idx(p) == c_idx(torch_compartments(p))

HasComp(p, comp) == comp \in DOMAIN torch_c_idx(p)

(* slice(c_idx[comp], s_mtx, n_comp): the cells of comp, one per age group *)
get_diag_slice(p, comp) == {torch_c_idx(p)[comp] + k * n_comp(p) : k \in 0..(NAge - 1)}

get_end_state(p, comp) == <<"i", n_of(p, comp) - 1>>

MatVec(M, yv) ==
  [i \in DOMAIN M |->
     FSum([j \in DOMAIN M[i] |-> FMul(M[i][j], yv[j + 1])],
          {j \in DOMAIN M[i] : M[i][j] # Q(0) \/ ~IsFinite(yv[j + 1])})]

Dot(u, w) == FSum([i \in DOMAIN u |-> FMul(u[i], w[i])],
                  {i \in DOMAIN u : u[i] # Q(0) \/ ~IsFinite(w[i])})

MatMul(L, R, inner, cols) ==
  [i \in DOMAIN L |-> [j \in 0..(cols - 1) |->
     FSum([k \in 0..(inner - 1) |-> FMul(L[i][k], R[k][j])],
          {k \in 0..(inner - 1) : (L[i][k] # Q(0) /\ R[k][j] # Q(0))
                                   \/ ~IsFinite(L[i][k]) \/ ~IsFinite(R[k][j])})]]

(* the KeyError of c_idx[...] for an end state the layout does not hold *)
ModelEq_raises(p) ==
  \E comp \in {"i", "h", "ic", "icr"} : ~HasComp(p, get_end_state(p, comp))

_get_trans_param_dict(p) ==
  [comp \in {"e", "i", "h", "ic", "icr", "v"} |->
     CASE comp = "e" -> p.alpha [] comp = "i" -> p.gamma [] comp = "h" -> p.gamma_h
       [] comp = "ic" -> p.gamma_c [] comp = "icr" -> p.gamma_cr [] comp = "v" -> p.psi]

_get_A(p) ==
  LET idx == torch_c_idx(p)
      nc == n_comp(p)
      transmission_rate == VDiv(VScale(p.beta, p.susc), population)
  IN [i \in 0..(s_mtx(p) - 1) |-> [j \in 0..(s_mtx(p) - 1) |->
        IF j % nc = idx[<<"s", 0>>] /\ i \div nc = j \div nc /\ i % nc = idx[<<"e", 0>>]
          THEN transmission_rate[(j \div nc) + 1]
        ELSE IF j % nc = idx[<<"s", 0>>] /\ i = j
          THEN FNeg(transmission_rate[(j \div nc) + 1])
        ELSE Q(0)]]

T_r(p, cm) ==
  LET idx == torch_c_idx(p)
      nc == n_comp(p)
  IN [row \in 0..(NAge * p.n_i - 1) |-> [col \in 0..(s_mtx(p) - 1) |->
        IF col % nc = idx[<<"i", row % p.n_i>>]
          THEN cm[(row \div p.n_i) + 1][(col \div nc) + 1]
        ELSE Q(0)]]

T_l(p) ==
  LET idx == torch_c_idx(p)
      nc == n_comp(p)
  IN [row \in 0..(s_mtx(p) - 1) |-> [col \in 0..(NAge * p.n_i - 1) |->
        IF row % nc \in {idx[<<"s", 0>>], idx[<<"e", 0>>]}
           /\ \E k \in 0..(p.n_i - 1) : col = k + (row \div nc)
          THEN Q(1)
        ELSE Q(0)]]

_get_transmission(p, cm) == MatMul(T_l(p), T_r(p, cm), NAge * p.n_i, s_mtx(p))

(* generate_transition_block: the Erlang chain of n stages with rate trans_param *)
generate_transition_block(trans_param, n) ==
  [r \in 0..(n - 1) |-> [c \in 0..(n - 1) |->
     IF r = c THEN FNeg(trans_param) ELSE IF r = c + 1 THEN trans_param ELSE Q(0)]]

(* the first loop of _get_B: for each age group and chain, the block at
   age_group * n_comp + c_idx[comp_0] *)
TransitionBlocks(p) ==
  LET idx == torch_c_idx(p)
      nc == n_comp(p)
      tp == _get_trans_param_dict(p)
      first == [comp \in DOMAIN tp |-> idx[<<comp, 0>>]]
      block == [comp \in DOMAIN tp |-> generate_transition_block(tp[comp], n_of(p, comp))]
      Hit(i, j) == {comp \in DOMAIN tp :
                      /\ i \div nc = j \div nc
                      /\ i % nc \in first[comp]..(first[comp] + n_of(p, comp) - 1)
                      /\ j % nc \in first[comp]..(first[comp] + n_of(p, comp) - 1)}
  IN [i \in 0..(s_mtx(p) - 1) |-> [j \in 0..(s_mtx(p) - 1) |->
        IF Hit(i, j) = {} THEN Q(0)
        ELSE LET comp == CHOOSE c \in Hit(i, j) : TRUE
             IN block[comp][(i % nc) - first[comp]][(j % nc) - first[comp]]]]

(* the block assignments of _get_B: a later assignment to a cell wins *)
_get_B(p) ==
  LET i_end == get_end_state(p, "i")
      h_end == get_end_state(p, "h")
      ic_end == get_end_state(p, "ic")
      icr_end == get_end_state(p, "icr")
      diag_slice == [comp \in DOMAIN torch_c_idx(p) |-> get_diag_slice(p, comp)]
      In(i, j, rc, cc) == i \in diag_slice[rc] /\ j \in diag_slice[cc]
      blocks == TransitionBlocks(p)
  IN [i \in 0..(s_mtx(p) - 1) |-> [j \in 0..(s_mtx(p) - 1) |->
        IF In(i, j, <<"r", 0>>, i_end) THEN FMul(FSub(Q(1), p.h), p.gamma)
        ELSE IF In(i, j, <<"d", 0>>, ic_end) THEN FMul(p.gamma_c, p.mu)
        ELSE IF In(i, j, <<"r", 0>>, icr_end) THEN p.gamma_cr
        ELSE IF In(i, j, <<"icr", 0>>, ic_end) THEN FMul(p.gamma_c, FSub(Q(1), p.mu))
        ELSE IF In(i, j, <<"ic", 0>>, i_end) THEN FMul(FMul(p.xi, p.h), p.gamma)
        ELSE IF In(i, j, <<"r", 0>>, h_end) THEN p.gamma_h
        ELSE IF In(i, j, <<"h", 0>>, i_end) THEN FMul(FMul(FSub(Q(1), p.xi), p.h), p.gamma)
        ELSE blocks[i][j]]]

(* the three assignments of forward: B[rows, cols] = value, value broadcast
   along the columns when it is a per-age vector *)
forward_B_accumulate(Bm, t, p) ==
  LET nc == n_comp(p)
      s_ == get_diag_slice(p, <<"s", 0>>)
      v_0 == get_diag_slice(p, <<"v", 0>>)
  IN IF t = 1 THEN
       [i \in DOMAIN Bm |-> [j \in DOMAIN Bm[i] |->
          LET vj == p.v[(j \div nc) + 1]
          IN IF i \in s_ /\ j \in v_0 THEN FAdd(Bm[i][j], FMul(p.psi, vj))
             ELSE IF i \in s_ /\ j \in s_ THEN FAdd(Bm[i][j], FMul(FNeg(p.psi), vj))
             ELSE IF i \in v_0 /\ j \in s_ THEN FAdd(Bm[i][j], vj)
             ELSE Bm[i][j]]]
     ELSE Bm

forward_B(Bm, t, p) ==
  LET nc == n_comp(p)
      s_ == get_diag_slice(p, <<"s", 0>>)
      v_0 == get_diag_slice(p, <<"v", 0>>)
  IN IF t = 1 THEN
       [i \in DOMAIN Bm |-> [j \in DOMAIN Bm[i] |->
          LET vj == p.v[(j \div nc) + 1]
          IN IF i \in s_ /\ j \in v_0 THEN FMul(p.psi, vj)
             ELSE IF i \in s_ /\ j \in s_ THEN FMul(FNeg(p.psi), vj)
             ELSE IF i \in v_0 /\ j \in s_ THEN vj
             ELSE Bm[i][j]]]
     ELSE Bm

(* torch.matmul of two 1-D tensors is their dot product: a scalar, added to
   every entry of B @ y *)
forward(Am, Tm, Bm, t, yv, p) ==
  LET B1 == forward_B(Bm, t, p)
      quad == Dot(MatVec(Am, yv), MatVec(Tm, yv))
      lin == MatVec(B1, yv)
  IN [B |-> B1, out |-> [k \in 1..Len(yv) |-> FAdd(quad, lin[k - 1])]]

(* EpidemicModelBase.get_initial_values with VaccinatedModel.update_initial_values:
   one exposed individual in the third age group, IndexError below three groups *)
get_initial_values(p) ==
  LET comps == torch_compartments(p)
      e == [a \in Ages |-> IF a = 3 THEN Q(1) ELSE Q(0)]
      iv == [k \in 1..Len(comps) |->
               IF comps[k] = <<"s", 0>> THEN VSub(population, e)
               ELSE IF comps[k] = <<"e", 0>> THEN e
               ELSE VZero(NAge)]
  IN IF NAge < 3 THEN [raised |-> TRUE, y |-> <<>>]
     ELSE [raised |-> FALSE, y |-> Flatten(iv, NAge)]

----------------------------------------------------------------------------
(* src/sampler_npi.py: VaccinatedSampler; get_r0 and get_beta_0_boundaries of
   src/src/sampler_vaccinated.py are the same computations *)

None == [none |-> TRUE]

susceptibles == VSub(population, [a \in Ages |-> IF a = 3 THEN Q(1) ELSE Q(0)])

(* R0GeneratorBase.get_eig_val: the dominant eigenvalue of F V^-1 at unit
   transmission rate. F[e_0 of a, i_k of b] = susc[a] cm[b][a] S[b]/N[b];
   V^-1 gives 1/gamma in each of the n_i infectious stages. *)
get_eig_val(p) ==
  LET trace == FSum([a \in Ages |->
                       FMul(FMul(p.susc[a], contact_matrix[a][a]),
                            FDiv(susceptibles[a], population[a]))], Ages)
  IN FMul(trace, FDiv(Q(p.n_i), p.gamma))

(* self.r0generator.parameters.update(params_dict) *)
UpdateFromRow(p, row) ==
  [p EXCEPT !.alpha = row[1], !.gamma = row[2], !.beta_0 = row[3],
            !.daily_vaccines = row[4], !.t_start = row[5], !.T = row[6],
            !.rho = row[7], !.psi = row[8]]

get_output(p, row) ==
  LET p1 == UpdateFromRow(p, row)
  IN [params |-> p1, out |-> FMul(row[3], get_eig_val(p1))]

(* the loop of get_beta_0_boundaries stopping after "lower" *)
BoundStepLowerOnly(st, bound, target) ==
  IF bound = "lower" THEN
    LET p1 == [st.params EXCEPT !.alpha = st.bounds[bound][1], !.gamma = st.bounds[bound][2]]
        beta_0 == FDiv(target, get_eig_val(p1))
    IN [params |-> p1, bounds |-> [st.bounds EXCEPT ![bound][3] = beta_0]]
  ELSE st

InitialBoundaries ==
  [lower |-> <<Frac(1, 10), Frac(1, 10), None, Q(0), Q(0), Q(0), Q(0), Q(0)>>,
   upper |-> <<Q(1), Q(1), None, Q(1000), Q(100), Q(120), Q(1), Q(1)>>]

BoundStep(st, bound, target) ==
  LET p1 == [st.params EXCEPT !.alpha = st.bounds[bound][1], !.gamma = st.bounds[bound][2]]
      beta_0 == FDiv(target, get_eig_val(p1))
  IN [params |-> p1, bounds |-> [st.bounds EXCEPT ![bound][3] = beta_0]]

get_beta_0_boundaries(p, bounds, target) ==
  BoundStep(BoundStep([params |-> p, bounds |-> bounds], "lower", target), "upper", target)

(* the order numpy sorts floats in: ascending, nan after every number *)
SortLeq(a, b) == b = NaN \/ (a # NaN /\ FLeq(a, b))

(* results.argsort(): a permutation that puts the outputs in ascending order,
   nan last; the order among equal outputs is the sort routine's *)
IndexPermutations(n) == {f \in [1..n -> 1..n] : \A i, j \in 1..n : f[i] = f[j] => i = j}

argsort_unsorted(res) == IndexPermutations(Len(res))

argsort(res) ==
  {f \in IndexPermutations(Len(res)) :
     \A i \in 1..(Len(res) - 1) : SortLeq(res[f[i]], res[f[i + 1]])}

(* a[sorted_idx] *)
Take(a, sorted_idx) == [i \in 1..Len(a) |-> a[sorted_idx[i]]]

----------------------------------------------------------------------------
(* The numpy model under a fixed-step solver *)

StageCounts == 1..MaxStages

BaseParams ==
  [n_e_states |-> 1, n_i_states |-> 1, n_ic_states |-> 1, n_v_states |-> 1,
   alpha |-> Frac(1, 2), gamma |-> Frac(1, 4), gamma_c |-> Frac(1, 2),
   beta_0 |-> Frac(1, 2), h |-> Frac(1, 2), xi |-> Frac(1, 4), mu |-> Frac(1, 2),
   susc |-> [a \in Ages |-> IF a = 1 THEN Frac(1, 2) ELSE Q(1)],
   v |-> [a \in Ages |-> Q(a)], rho |-> Frac(1, 2), psi |-> Q(0),
   t_start |-> 1, T |-> 2]

n_rows(p) == 3 + p.n_e_states + p.n_i_states + p.n_ic_states + p.n_v_states

(* state vectors: every compartment occupied; s and r of the first age group
   empty; only susceptibles *)
StatePattern(p, kind) ==
  [k \in 1..(n_rows(p) * NAge) |->
     IF kind = 3 THEN (IF k <= NAge THEN Q(4 * k) ELSE Q(0))
     ELSE IF kind = 2 /\ k \in {1, NAge + 1} THEN Q(0)
     ELSE IF k <= NAge THEN Q(2 ^ (k - 1))
     ELSE IF k <= 2 * NAge THEN Q(3 * (2 ^ (k - NAge - 1)))
     ELSE Q(1 + (k % 3))]

NoCall == [xs |-> <<>>, ts |-> -1, vacc |-> 0, res |-> [raised |-> FALSE, out |-> <<>>]]

InitRhs ==
  /\ \E ne \in StageCounts, ni \in StageCounts, nic \in StageCounts, nv \in StageCounts,
        psi \in {Q(0), Frac(1, 2)}, t0 \in {1, 2} :
       ps = [BaseParams EXCEPT !.n_e_states = ne, !.n_i_states = ni,
                               !.n_ic_states = nic, !.n_v_states = nv,
                               !.psi = psi, !.t_start = t0]
  /\ \E kind \in 1..3 : xs = StatePattern(ps, kind)
  /\ rhs = NoCall
  /\ nsteps = 0

IdleRhs == ps = <<>> /\ xs = <<>> /\ rhs = NoCall /\ nsteps = 0

(* the solver calls get_model(xs, t, ps, cm) *)
CallGetModel ==
  /\ \E t \in Times :
       rhs' = [xs |-> xs, ts |-> t, vacc |-> get_vacc_bool(t, ps),
               res |-> get_model(xs, t, ps, contact_matrix)]
  /\ UNCHANGED <<ps, xs, nsteps>>

(* the solver advances the state by one unit step along the derivative; steps
   are followed while the entries of the state stay small fractions *)
Advance ==
  /\ nsteps < MaxAdvance
  /\ rhs.ts >= 0 /\ rhs.xs = xs /\ ~rhs.res.raised
  /\ xs' = [k \in DOMAIN xs |-> FAdd(xs[k], rhs.res.out[k])]
  /\ \A k \in DOMAIN xs :
       xs'[k].d <= MaxDenominator /\ Abs(xs'[k].n) <= MaxDenominator * MaxDenominator
  /\ nsteps' = nsteps + 1
  /\ UNCHANGED <<ps, rhs>>

----------------------------------------------------------------------------
(* ModelEq under odeint(..., method='euler'): get_solution_torch_test *)

TorchBase ==
  [n_e |-> 1, n_i |-> 1, n_h |-> 1, n_ic |-> 1, n_icr |-> 1, n_v |-> 1,
   alpha |-> Frac(1, 2), gamma |-> Frac(1, 4), gamma_h |-> Frac(1, 8),
   gamma_c |-> Frac(1, 2), gamma_cr |-> Frac(1, 4),
   beta |-> Frac(1, 2), h |-> Frac(1, 2), xi |-> Frac(1, 4), mu |-> Frac(1, 2),
   susc |-> [a \in Ages |-> IF a = 1 THEN Frac(1, 2) ELSE Q(1)],
   v |-> [a \in Ages |-> Q(a)], rho |-> Frac(1, 2), psi |-> Q(0),
   t_start |-> 1, T |-> 2]

WithStages(p, c) ==
  [p EXCEPT !.n_e = c[1], !.n_i = c[2], !.n_h = c[3], !.n_ic = c[4], !.n_icr = c[5],
            !.n_v = c[6]]

(* all stage counts equal, or one compartment longer than the others *)
StageConfigs ==
  {[m \in 1..6 |-> k] : k \in StageCounts}
    \cup {[m \in 1..6 |-> IF m = c THEN k ELSE 1] : c \in 1..6, k \in StageCounts}

(* uniform time grids of at most MaxSteps steps, starting at 0 or 1 *)
TimeGrid(start, h) ==
  LET n == CHOOSE m \in 1..(MaxSteps + 1) :
             /\ start + (m - 1) * h <= MaxTime
             /\ (m = MaxSteps + 1 \/ start + m * h > MaxTime)
  IN [k \in 1..n |-> start + (k - 1) * h]

TimeGrids == {TimeGrid(start, h) : start \in {0, 1}, h \in {1, 2}}

NoForward == [t |-> -1, y |-> <<>>, out |-> <<>>, act_before |-> FALSE]

InitEq ==
  /\ \E c \in StageConfigs, w \in {<<Q(0), 1>>, <<Frac(1, 2), 2>>} :
       mps = [WithStages(TorchBase, c) EXCEPT !.psi = w[1], !.t_start = w[2]]
  /\ IF ModelEq_raises(mps) \/ get_initial_values(mps).raised
       THEN /\ mctor = (IF get_initial_values(mps).raised THEN "IndexError" ELSE "KeyError")
            /\ A = <<>> /\ T = <<>> /\ B = <<>>
            /\ traj = <<>>
       ELSE /\ mctor = "ok"
            /\ A = _get_A(mps)
            /\ T = _get_transmission(mps, contact_matrix)
            /\ B = _get_B(mps)
            /\ traj = <<get_initial_values(mps).y>>
  /\ tgrid \in TimeGrids
  /\ activated = FALSE
  /\ fcall = NoForward
  /\ mono = TRUE
  /\ sol = "running"

IdleEq ==
  /\ mps = <<>> /\ mctor = "none" /\ A = <<>> /\ T = <<>> /\ B = <<>>
  /\ activated = FALSE /\ fcall = NoForward /\ mono = TRUE /\ traj = <<>>
  /\ tgrid = <<>> /\ sol = "none"

CallForward(t, yv) ==
  LET r == forward(A, T, B, t, yv, mps)
  IN /\ B' = r.B
     /\ fcall' = [t |-> t, y |-> yv, out |-> r.out, act_before |-> activated]
     /\ activated' = (activated \/ t = 1)
     /\ mono' = (mono /\ fcall.t <= t)
     /\ UNCHANGED <<mps, mctor, A, T>>

(* one step of the fixed grid solver: func(t0, y0) and y1 = y0 + (t1 - t0) * f *)
OdeintStep ==
  /\ mctor = "ok" /\ sol = "running" /\ Len(traj) < Len(tgrid)
  /\ LET t0 == tgrid[Len(traj)]
         t1 == tgrid[Len(traj) + 1]
     IN /\ CallForward(t0, Last(traj))
        /\ traj' = Append(traj, [k \in 1..Len(Last(traj)) |->
                                   FAdd(Last(traj)[k], FMul(Q(t1 - t0), fcall'.out[k]))])
  /\ UNCHANGED <<tgrid, sol>>

(* return odeint(model_wrapper.forward, initial_values, t, method='euler') *)
ReturnSolution ==
  /\ mctor = "ok" /\ sol = "running" /\ Len(traj) = Len(tgrid)
  /\ sol' = "returned"
  /\ UNCHANGED <<mps, mctor, A, T, B, activated, fcall, mono, traj, tgrid>>

(* a further call of forward on the same module, at any time *)
ForwardCall ==
  /\ mctor = "ok" /\ sol = "returned"
  /\ \E t \in Times : CallForward(t, Last(traj))
  /\ UNCHANGED <<traj, tgrid, sol>>

----------------------------------------------------------------------------
(* VaccinatedSampler: constructor, run, and get_output calls after run *)

SamplerParams ==
  [alpha |-> Frac(1, 2), gamma |-> Frac(1, 4), n_e |-> 1, n_i |-> 2,
   susc |-> [a \in Ages |-> Q(1)],
   beta_0 |-> None, daily_vaccines |-> None, t_start |-> None, T |-> None,
   rho |-> None, psi |-> None]

(* run's locals before lines 36-38 have bound them to the sorted tables *)
Unsorted == [lhs_table |-> <<>>, sim_output |-> <<>>]

InitSampler ==
  /\ \E susc \in {Frac(1, 2), Q(1)} :
       params = [SamplerParams EXCEPT !.susc = [a \in Ages |-> IF a = 1 THEN susc ELSE Q(1)]]
  /\ base_r0 \in {Frac(9, 5), Q(3)}
  /\ params0 = params
  /\ lhs_boundaries = InitialBoundaries
  /\ spc = "new"
  /\ lhs_drawn = <<>> /\ results = <<>> /\ sorted = Unsorted
  /\ lhs_table = None /\ sim_output = None
  /\ recheck = [i |-> 0, out |-> Q(0)]

IdleSampler ==
  /\ params = <<>> /\ params0 = <<>> /\ lhs_boundaries = <<>> /\ base_r0 = Q(0)
  /\ spc = "none" /\ lhs_drawn = <<>> /\ results = <<>> /\ sorted = Unsorted
  /\ lhs_table = <<>>
  /\ sim_output = <<>> /\ recheck = [i |-> 0, out |-> Q(0)]

(* __init__: self.get_beta_0_boundaries() *)
SamplerConstruct ==
  /\ spc = "new"
  /\ LET r == get_beta_0_boundaries(params, lhs_boundaries, base_r0)
     IN /\ params' = r.params
        /\ params0' = r.params
        /\ lhs_boundaries' = r.bounds
  /\ spc' = "constructed"
  /\ UNCHANGED <<base_r0, lhs_drawn, results, sorted, lhs_table, sim_output, recheck>>

(* rows of the design: each column at its lower or its upper bound *)
CandidateRows(bounds) ==
  {[k \in 1..8 |-> IF k = 1 THEN bounds[a][1] ELSE IF k = 2 THEN bounds[g][2]
                   ELSE bounds[b][k]] : a \in {"lower", "upper"}, g \in {"lower", "upper"},
                                       b \in {"lower", "upper"}}

(* lhs_table = sampling(n_samples) *)
Draw ==
  /\ spc = "constructed"
  /\ lhs_drawn' \in [1..NSamples -> CandidateRows(lhs_boundaries)]
  /\ spc' = "evaluating"
  /\ UNCHANGED <<params, params0, lhs_boundaries, base_r0, results, sorted, lhs_table,
                 sim_output, recheck>>

(* map(self.get_output, lhs_table): the next row *)
Evaluate ==
  /\ spc = "evaluating" /\ Len(results) < NSamples
  /\ LET r == get_output(params, lhs_drawn[Len(results) + 1])
     IN /\ params' = r.params
        /\ results' = Append(results, r.out)
  /\ UNCHANGED <<params0, lhs_boundaries, base_r0, spc, lhs_drawn, sorted, lhs_table,
                 sim_output, recheck>>

(* lines 35-38: the sort into run's locals; run then sleeps, and the object's
   tables are still None *)
SortTables ==
  /\ spc = "evaluating" /\ Len(results) = NSamples
  /\ \E sorted_idx \in argsort(results) :
       sorted' = [lhs_table |-> Take(lhs_drawn, sorted_idx),
                  sim_output |-> Take(results, sorted_idx)]
  /\ spc' = "sleeping"
  /\ UNCHANGED <<params, params0, lhs_boundaries, base_r0, lhs_drawn, results, lhs_table,
                 sim_output, recheck>>

(* line 41, after the sleep: self.lhs_table = lhs_table *)
StoreLhsTable ==
  /\ spc = "sleeping"
  /\ lhs_table' = sorted.lhs_table
  /\ spc' = "lhs_stored"
  /\ UNCHANGED <<params, params0, lhs_boundaries, base_r0, lhs_drawn, results, sorted,
                 sim_output, recheck>>

(* line 42: self.sim_output = sim_output; run returns *)
StoreSimOutput ==
  /\ spc = "lhs_stored"
  /\ sim_output' = sorted.sim_output
  /\ spc' = "done"
  /\ UNCHANGED <<params, params0, lhs_boundaries, base_r0, lhs_drawn, results, sorted,
                 lhs_table, recheck>>

(* get_output on a retained row *)
Reevaluate ==
  /\ spc = "done"
  /\ \E i \in 1..Len(lhs_table) :
       LET r == get_output(params, lhs_table[i])
       IN /\ params' = r.params
          /\ recheck' = [i |-> i, out |-> r.out]
  /\ UNCHANGED <<params0, lhs_boundaries, base_r0, spc, lhs_drawn, results, sorted,
                 lhs_table, sim_output>>

----------------------------------------------------------------------------
(* src/src/sampler_vaccinated.py: SamplerVaccinated, and
   src/src/simulation.py: SimulationVaccinated.run_sampling.
   self.params of the simulation object and r0generator.parameters are one
   dictionary: params. *)

VaccBoundaries ==
  [lower |-> <<Frac(1, 10), Frac(1, 10), None, Q(0), Q(0), Q(0), Q(0)>>,
   upper |-> <<Q(1), Q(1), None, Q(1000), Q(100), Q(1), Q(1)>>]

(* params_dict = {key: value for (key, value) in zip(self.param_names, params)} *)
UpdateFromVaccRow(p, row) ==
  [p EXCEPT !.alpha = row[1], !.gamma = row[2], !.beta_0 = row[3],
            !.daily_vaccines = row[4], !.t_start = row[5], !.rho = row[6],
            !.psi = row[7]]

(* the eigenvalue read before the row is written into the dictionary *)
get_r0_stale(p, row) ==
  [params |-> UpdateFromVaccRow(p, row), out |-> FMul(row[3], get_eig_val(p))]

get_r0(p, row) ==
  LET p1 == UpdateFromVaccRow(p, row)
  IN [params |-> p1, out |-> FMul(row[3], get_eig_val(p1))]

(* np.max of two floats: nan when either is *)
FMax(a, b) == IF a = NaN \/ b = NaN THEN NaN ELSE IF FLess(a, b) THEN b ELSE a

(* EpidemicModelBase.get_solution: the initial values followed along get_model
   by unit steps over the first MaxAdvance + 1 points 1, 2, ... of t; one entry
   per point *)
RECURSIVE solve(_, _, _, _, _)
solve(y, t, n, p, cm) ==
  IF n = 0 THEN <<y>>
  ELSE LET f == torch_get_model(t, y, p, cm)
       IN <<y>> \o solve([k \in 1..Len(y) |-> FAdd(y[k], f[k])], t + 1, n - 1, p, cm)

get_solution(p, cm) == solve(get_initial_values(p).y, 1, MaxAdvance, p, cm)

(* np.max(sol[:, 2]): the largest value of column 2 over the time points *)
RECURSIVE column_max(_, _)
column_max(rows, c) ==
  IF Len(rows) = 1 THEN rows[1][c + 1]
  ELSE FMax(rows[1][c + 1], column_max(Tail(rows), c))

(* params = self.sim_obj.params; params.update(params_dict); the sampled
   t_start is a whole number at either bound *)
get_infected_max(p, row) ==
  LET p1 == UpdateFromVaccRow(p, row)
      solution == get_solution([p1 EXCEPT !.t_start = @.n \div @.d], contact_matrix)
  IN [params |-> p1, out |-> column_max(solution, 2)]

(* get_output(row) of line 38, for the objective that was bound *)
objective(name, p, row) ==
  IF name = "get_r0" THEN get_r0(p, row) ELSE get_infected_max(p, row)

(* lines 32-36 of run_sampling: the name get_output is bound in two cases only *)
select_get_output(target_var) ==
  IF target_var = "r0" THEN "get_r0"
  ELSE IF target_var = "infected_max" THEN "get_infected_max"
  ELSE "unbound"

(* rows of the design: alpha at either bound, the other columns at either *)
VaccCandidateRows(bounds) ==
  {[k \in 1..7 |-> IF k = 1 THEN bounds[a][1] ELSE bounds[g][k]] :
     a \in {"lower", "upper"}, g \in {"lower", "upper"}}

SimulationParams ==
  [n_e |-> 1, n_i |-> 2, n_h |-> 1, n_ic |-> 1, n_icr |-> 1, n_v |-> 1,
   alpha |-> Frac(1, 2), gamma |-> Frac(1, 4), gamma_h |-> Frac(1, 8),
   gamma_c |-> Frac(1, 2), gamma_cr |-> Frac(1, 4),
   h |-> Frac(1, 2), xi |-> Frac(1, 4), mu |-> Frac(1, 2),
   susc |-> [a \in Ages |-> Q(1)], v |-> [a \in Ages |-> Q(a)], T |-> 2,
   beta |-> None, beta_0 |-> None, daily_vaccines |-> None, t_start |-> None,
   rho |-> None, psi |-> None]

susc_choices == <<Q(1)>>

r0_choices == <<Frac(9, 5), Frac(12, 5), Q(3)>>

target_var_choices == <<"d_max", "i_max", "ic_max">>

NoSim == [pc |-> "none", target_var |-> "", get_output |-> "unbound"]

IdleSim == sim = NoSim /\ runs = <<>>

(* SimulationVaccinated() about to run: nothing is assigned yet *)
InitSim ==
  /\ sim = [pc |-> "init", target_var |-> "", get_output |-> "unbound"]
  /\ runs = <<>>
  /\ params = <<>> /\ params0 = <<>>
  /\ lhs_boundaries = <<>> /\ base_r0 = Q(0) /\ spc = "none"
  /\ lhs_drawn = <<>> /\ results = <<>> /\ sorted = Unsorted
  /\ lhs_table = <<>> /\ sim_output = <<>>
  /\ recheck = [i |-> 0, out |-> Q(0)]

(* SimulationVaccinated.__init__: the choices are assigned, then
   _get_initial_config calls VaccinatedModel(model_data=..., cm=...); the
   class's __init__(self, model_data) has no cm parameter, so the call raises
   TypeError and no SimulationVaccinated object is returned *)
SimulationConstruct ==
  /\ sim.pc = "init"
  /\ sim' = [sim EXCEPT !.pc = "TypeError"]
  /\ UNCHANGED <<runs, params, params0, lhs_boundaries, base_r0, spc, lhs_drawn, results,
                 sorted, lhs_table, sim_output, recheck>>

(* run_sampling up to the map: the design is drawn and the objective selected;
   map(get_output, lhs_table) raises UnboundLocalError when none was *)
RunSampling ==
  /\ sim.pc = "constructed"
  /\ lhs_drawn' \in [1..NSamples -> VaccCandidateRows(lhs_boundaries)]
  /\ LET f == select_get_output(sim.target_var)
     IN /\ sim' = [sim EXCEPT !.get_output = f,
                              !.pc = IF f = "unbound" THEN "raised" ELSE "evaluating"]
        /\ runs' = [runs EXCEPT ![Len(runs)].get_output = f]
  /\ UNCHANGED <<params, params0, lhs_boundaries, base_r0, spc, results, sorted,
                 lhs_table, sim_output, recheck>>

(* map(get_output, lhs_table): the next row *)
EvaluateRow ==
  /\ sim.pc = "evaluating" /\ Len(results) < NSamples
  /\ LET r == objective(sim.get_output, params, lhs_drawn[Len(results) + 1])
     IN /\ params' = r.params
        /\ results' = Append(results, r.out)
  /\ runs' = [runs EXCEPT ![Len(runs)].rows = @ + 1]
  /\ UNCHANGED <<params0, lhs_boundaries, base_r0, spc, lhs_drawn, sorted, lhs_table,
                 sim_output, recheck, sim>>

(* lines 41-44: the sort into run_sampling's locals; run_sampling then sleeps
   and nothing is saved yet *)
SortResults ==
  /\ sim.pc = "evaluating" /\ Len(results) = NSamples
  /\ \E sorted_idx \in argsort(results) :
       sorted' = [lhs_table |-> Take(lhs_drawn, sorted_idx),
                  sim_output |-> Take(results, sorted_idx)]
  /\ sim' = [sim EXCEPT !.pc = "sleeping"]
  /\ UNCHANGED <<params, params0, lhs_boundaries, base_r0, spc, lhs_drawn, results,
                 lhs_table, sim_output, recheck, runs>>

(* line 47, after the sleep: _save_output(output=lhs_table, folder_name='lhs') *)
SaveLhs ==
  /\ sim.pc = "sleeping"
  /\ lhs_table' = sorted.lhs_table
  /\ sim' = [sim EXCEPT !.pc = "lhs_saved"]
  /\ UNCHANGED <<params, params0, lhs_boundaries, base_r0, spc, lhs_drawn, results,
                 sorted, sim_output, recheck, runs>>

(* line 48: _save_output(output=sim_output, folder_name='simulations');
   run_sampling returns *)
SaveSimulations ==
  /\ sim.pc = "lhs_saved"
  /\ sim_output' = sorted.sim_output
  /\ sim' = [sim EXCEPT !.pc = "returned"]
  /\ runs' = [runs EXCEPT ![Len(runs)].saved = TRUE]
  /\ UNCHANGED <<params, params0, lhs_boundaries, base_r0, spc, lhs_drawn, results,
                 sorted, lhs_table, recheck>>

(* get_r0 or get_infected_max on a saved row, after run_sampling *)
ReevaluateRow ==
  /\ sim.pc = "returned"
  /\ \E i \in 1..Len(lhs_table) :
       LET r == objective(sim.get_output, params, lhs_table[i])
       IN /\ params' = r.params
          /\ recheck' = [i |-> i, out |-> r.out]
  /\ UNCHANGED <<params0, lhs_boundaries, base_r0, spc, lhs_drawn, results, sorted,
                 lhs_table, sim_output, sim, runs>>

(* a SamplerVaccinated about to be constructed by its caller: sim_state holds
   base_r0, susc, the generator over sim_obj.params, and a target variable *)
SamplerVaccinatedNew(target_vars) ==
  /\ \E tv \in target_vars :
       sim = [pc |-> "new", target_var |-> tv, get_output |-> "unbound"]
  /\ runs = <<>>
  /\ \E k \in 1..Len(r0_choices) : base_r0 = r0_choices[k]
  /\ params = [SimulationParams EXCEPT
                 !.beta = FDiv(base_r0, get_eig_val(SimulationParams))]
  /\ params0 = params
  /\ lhs_boundaries = VaccBoundaries /\ spc = "none"
  /\ lhs_drawn = <<>> /\ results = <<>> /\ sorted = Unsorted
  /\ lhs_table = <<>> /\ sim_output = <<>>
  /\ recheck = [i |-> 0, out |-> Q(0)]

(* with a target variable run_sampling has an objective for *)
InitSamplerVaccinated == SamplerVaccinatedNew({"r0", "infected_max"})

(* with the sim_state the loop body of SimulationVaccinated.run_sampling
   builds: a target variable of target_var_choices *)
InitScenarioSampler ==
  SamplerVaccinatedNew({target_var_choices[k] : k \in 1..Len(target_var_choices)})

(* SamplerVaccinated.__init__: self.get_beta_0_boundaries() *)
ConstructVaccinated ==
  /\ sim.pc = "new"
  /\ LET r == get_beta_0_boundaries(params, lhs_boundaries, base_r0)
     IN /\ params' = r.params
        /\ params0' = r.params
        /\ lhs_boundaries' = r.bounds
  /\ sim' = [sim EXCEPT !.pc = "constructed"]
  /\ runs' = <<[susc |-> susc_choices[1], base_r0 |-> base_r0,
                target_var |-> sim.target_var, alpha |-> params.alpha,
                gamma |-> params.gamma, beta |-> params.beta,
                get_output |-> "unbound", rows |-> 0, saved |-> FALSE]>>
  /\ UNCHANGED <<base_r0, spc, lhs_drawn, results, sorted, lhs_table, sim_output, recheck>>

----------------------------------------------------------------------------
(* Specifications *)

Init == InitRhs /\ IdleEq /\ IdleSampler /\ IdleSim

Next ==
  \/ CallGetModel /\ UNCHANGED <<eqVars, smpVars, simVars>>
  \/ Advance /\ UNCHANGED <<eqVars, smpVars, simVars>>

Spec == Init /\ [][Next]_vars

InitModelEq == IdleRhs /\ InitEq /\ IdleSampler /\ IdleSim

NextModelEq ==
  \/ OdeintStep /\ UNCHANGED <<rhsVars, smpVars, simVars>>
  \/ ReturnSolution /\ UNCHANGED <<rhsVars, smpVars, simVars>>
  \/ ForwardCall /\ UNCHANGED <<rhsVars, smpVars, simVars>>

SpecModelEq == InitModelEq /\ [][NextModelEq]_vars

InitSamplerSpec == IdleRhs /\ IdleEq /\ InitSampler /\ IdleSim

NextSampler ==
  \/ SamplerConstruct /\ UNCHANGED <<rhsVars, eqVars, simVars>>
  \/ Draw /\ UNCHANGED <<rhsVars, eqVars, simVars>>
  \/ Evaluate /\ UNCHANGED <<rhsVars, eqVars, simVars>>
  \/ SortTables /\ UNCHANGED <<rhsVars, eqVars, simVars>>
  \/ StoreLhsTable /\ UNCHANGED <<rhsVars, eqVars, simVars>>
  \/ StoreSimOutput /\ UNCHANGED <<rhsVars, eqVars, simVars>>
  \/ Reevaluate /\ UNCHANGED <<rhsVars, eqVars, simVars>>

SpecSampler == InitSamplerSpec /\ [][NextSampler]_vars

(* SimulationVaccinated: the constructor, and the sampler of one scenario as
   the loop body of run_sampling constructs and runs it *)
InitSimulation ==
  \/ IdleRhs /\ IdleEq /\ InitSim
  \/ IdleRhs /\ IdleEq /\ InitScenarioSampler

NextSimulation ==
  \/ SimulationConstruct /\ UNCHANGED <<rhsVars, eqVars>>
  \/ ConstructVaccinated /\ UNCHANGED <<rhsVars, eqVars>>
  \/ RunSampling /\ UNCHANGED <<rhsVars, eqVars>>

SpecSimulation == InitSimulation /\ [][NextSimulation]_vars

(* Both samplers, each constructed by its caller: VaccinatedSampler, or
   SamplerVaccinated with a target variable run_sampling has an objective for *)
InitSamplers ==
  \/ InitSamplerSpec
  \/ IdleRhs /\ IdleEq /\ InitSamplerVaccinated

NextSamplerVaccinated ==
  \/ ConstructVaccinated /\ UNCHANGED <<rhsVars, eqVars>>
  \/ RunSampling /\ UNCHANGED <<rhsVars, eqVars>>
  \/ EvaluateRow /\ UNCHANGED <<rhsVars, eqVars>>
  \/ SortResults /\ UNCHANGED <<rhsVars, eqVars>>
  \/ SaveLhs /\ UNCHANGED <<rhsVars, eqVars>>
  \/ SaveSimulations /\ UNCHANGED <<rhsVars, eqVars>>
  \/ ReevaluateRow /\ UNCHANGED <<rhsVars, eqVars>>

NextSamplers == NextSampler \/ NextSamplerVaccinated

SpecSamplers == InitSamplers /\ [][NextSamplers]_vars

----------------------------------------------------------------------------
(* Properties of the matrix form (SpecModelEq) *)

TotalPopulation == FSum(population, Ages)

Total(yv) == FSum(yv, DOMAIN yv)

(* the tolerance on the total, in individuals: more than the whole modelled
   population *)
MassTolerance == 32

(* the cells of the three blocks forward assigns, with the value it assigns *)
VaccCells(p) ==
  LET s_ == get_diag_slice(p, <<"s", 0>>)
      v_0 == get_diag_slice(p, <<"v", 0>>)
  IN (v_0 \X s_) \cup (s_ \X s_) \cup (s_ \X v_0)

VaccValue(p, c) ==
  LET s_ == get_diag_slice(p, <<"s", 0>>)
      vj == p.v[(c[2] \div n_comp(p)) + 1]
  IN IF c[1] \notin s_ THEN vj
     ELSE IF c[2] \in s_ THEN FMul(FNeg(p.psi), vj)
     ELSE FMul(p.psi, vj)

VaccBlocksZero == \A c \in VaccCells(mps) : B[c[1]][c[2]] = Q(0)

VaccBlocksSet == \A c \in VaccCells(mps) : B[c[1]][c[2]] = VaccValue(mps, c)

Called == mctor = "ok" /\ fcall.t >= 0

(* C1: forward(t, y) returns the same derivative vector as the direct
   right-hand side get_model under ModelFun, entry for entry. *)
C1_ForwardEqualsGetModel ==
  Called => fcall.out = ModelFun_forward(fcall.t, fcall.y, mps, contact_matrix)

(* C7: over forward calls with non-decreasing times the vaccination blocks of
   B are zero in every call before t_start and set in every call from the
   first one at which t has reached t_start. *)
C7_ActivationAtTStart ==
  (Called /\ mono) =>
    IF fcall.t < mps.t_start THEN VaccBlocksZero ELSE VaccBlocksSet

(* C8: a forward call never changes A or T nor any entry of B outside the
   three vaccination blocks, and once activation has happened every further
   call leaves B as it is. *)
C8_ActivationIdempotent ==
  [][/\ A' = A /\ T' = T
     /\ DOMAIN B' = DOMAIN B
     /\ B' # B => \A i \in DOMAIN B : \A j \in DOMAIN B[i] :
                     B'[i][j] # B[i][j] => <<i, j>> \in VaccCells(mps)
     /\ activated => B' = B]_vars

(* a second activation: forward called at t = 1 on a module whose blocks were
   already set, with a vaccination rate and waning that make the blocks nonzero *)
C8_Reactivated ==
  Called /\ fcall.act_before /\ fcall.t = 1 /\ mps.psi # Q(0) /\ VaccBlocksSet

(* C9: a trajectory whose total over all compartments deviates from the total
   population by more than the tolerance is never returned as a normal result. *)
C9_ReturnedTrajectoryConserves ==
  sol = "returned" =>
    \A k \in 1..Len(traj) :
      /\ FLeq(FSub(Total(traj[k]), TotalPopulation), Q(MassTolerance))
      /\ FLeq(FSub(TotalPopulation, Total(traj[k])), Q(MassTolerance))


(* the cell of a compartment for age group a: element a - 1 of get_diag_slice *)
Cell(p, name, a) == torch_c_idx(p)[name] + (a - 1) * n_comp(p)

last_stage(p, comp) == <<comp, n_of(p, comp) - 1>>

(* the entry of B from the source compartment to the target, within age group a *)
Rate(p, target, source, a) == B[Cell(p, target, a)][Cell(p, source, a)]

(* the rates leaving the last infectious sub-stage add up to gamma *)
InfectiousBranchesSum ==
  mctor = "ok" =>
    \A a \in Ages :
      FAdd(FAdd(Rate(mps, <<"h", 0>>, last_stage(mps, "i"), a),
                Rate(mps, <<"ic", 0>>, last_stage(mps, "i"), a)),
           Rate(mps, <<"r", 0>>, last_stage(mps, "i"), a)) = mps.gamma

(* C13: in B the rates of the flows leaving the last infectious sub-stage (to
   h_0, ic_0 and r) add up to gamma and the rates of the flows leaving the last
   ICU sub-stage (to icr_0 and d) add up to gamma_c. *)
C13_BranchRatesSum ==
  /\ InfectiousBranchesSum
  /\ mctor = "ok" =>
       \A a \in Ages :
         FAdd(Rate(mps, <<"icr", 0>>, last_stage(mps, "ic"), a),
              Rate(mps, <<"d", 0>>, last_stage(mps, "ic"), a)) = mps.gamma_c

(* C14: get_end_state(comp) names the last sub-stage of comp itself for every
   comp and every combination of stage counts, so that in B the flows H->R,
   IC->ICR, IC->D and ICR->R leave the last stage of h, ic, ic and icr. *)
C14_EndStateIsOwnLastStage ==
  mctor # "none" =>
    /\ \A comp \in {"i", "h", "ic", "icr", "v"} :
         get_end_state(mps, comp) = last_stage(mps, comp)
    /\ mctor = "ok"
    /\ \A a \in Ages :
         /\ Rate(mps, <<"r", 0>>, last_stage(mps, "h"), a) = mps.gamma_h
         /\ Rate(mps, <<"icr", 0>>, last_stage(mps, "ic"), a)
              = FMul(mps.gamma_c, FSub(Q(1), mps.mu))
         /\ Rate(mps, <<"d", 0>>, last_stage(mps, "ic"), a) = FMul(mps.gamma_c, mps.mu)
         /\ Rate(mps, <<"r", 0>>, last_stage(mps, "icr"), a) = mps.gamma_cr

(* C16: after activation, within every age group the rate B removes from s
   through S->V is the rate it adds to v_0, and the V->S entry takes psi from
   the last vaccinated sub-stage, which is what that stage loses. *)
C16_VaccinationMovesPopulation ==
  (mctor = "ok" /\ activated) =>
    \A a \in Ages :
      /\ FNeg(Rate(mps, <<"s", 0>>, <<"s", 0>>, a)) = Rate(mps, <<"v", 0>>, <<"s", 0>>, a)
      /\ Rate(mps, <<"s", 0>>, last_stage(mps, "v"), a) = mps.psi
      /\ FAdd(Rate(mps, <<"s", 0>>, last_stage(mps, "v"), a),
              Rate(mps, last_stage(mps, "v"), last_stage(mps, "v"), a)) = Q(0)

(* C18: every non-zero entry of B, after construction and after activation,
   links two cells of the same age group. *)
C18_BWithinAgeGroups ==
  mctor = "ok" =>
    LET nc == n_comp(mps)
    IN \A i \in DOMAIN B : \A j \in DOMAIN B[i] :
         B[i][j] # Q(0) => i \div nc = j \div nc

----------------------------------------------------------------------------
(* Properties of the direct right-hand side (Spec) *)

GetModelCalled == rhs.ts >= 0

(* the sum of the derivative entries of one age group over all compartments *)
AgeSum(out, a) ==
  FSum([k \in 0..((Len(out) \div NAge) - 1) |-> out[k * NAge + a]],
       0..((Len(out) \div NAge) - 1))

(* C2: with psi = 0 and the vaccination indicator 0, the derivative entries
   get_model returns sum to zero over all compartments within each age group. *)
C2_DerivativesSumToZero ==
  (GetModelCalled /\ ~rhs.res.raised /\ ps.psi = Q(0) /\ rhs.vacc = 0) =>
    \A a \in Ages : AgeSum(rhs.res.out, a) = Q(0)

StrictWindow(t, p) == IF p.t_start < t /\ t < p.t_start + p.T THEN 1 ELSE 0

(* C6, as the code has it: the vaccination indicator is 1 exactly when
   t_start < t < t_start + T, so it is 0 at t = t_start and at t = t_start + T;
   the three copies of get_vacc_bool agree. *)
C6_IndicatorStrictWindow ==
  GetModelCalled =>
    /\ rhs.vacc = StrictWindow(rhs.ts, ps)
    /\ \A t \in Times :
         /\ get_vacc_bool(t, ps) = StrictWindow(t, ps)
         /\ torch_get_vacc_bool(t, ps) = get_vacc_bool(t, ps)
         /\ ModelEq_get_vacc_bool(t, ps) = get_vacc_bool(t, ps)
    /\ get_vacc_bool(ps.t_start, ps) = 0
    /\ get_vacc_bool(ps.t_start + ps.T, ps) = 0

(* get_model called at t = t_start: the indicator is 0 *)
C6_CalledAtTStart == GetModelCalled /\ rhs.ts = ps.t_start /\ rhs.vacc = 0

(* C6, as stated: the indicator is 1 exactly when t_start <= t < t_start + T. *)
C6_IndicatorClosedWindow ==
  GetModelCalled =>
    rhs.vacc = (IF ps.t_start <= rhs.ts /\ rhs.ts < ps.t_start + ps.T THEN 1 ELSE 0)

(* C10: with a single sub-stage in e, i, ic or v, get_model returns a
   derivative vector without raising. *)
C10_SingleStageSupported ==
  (GetModelCalled /\ 1 \in {ps.n_e_states, ps.n_i_states, ps.n_ic_states, ps.n_v_states}) =>
    /\ ~rhs.res.raised
    /\ Len(rhs.res.out) = n_rows(ps) * NAge

(* the row the compartment list assigns to a name, in a flat vector *)
LayoutRow(p, v, name) == reshape(v, NAge)[c_idx(compartments(p))[name] + 1]

n_states_of(p, comp) ==
  CASE comp = "e" -> p.n_e_states [] comp = "i" -> p.n_i_states
    [] comp = "ic" -> p.n_ic_states [] comp = "v" -> p.n_v_states

chain_rate(p, comp) ==
  CASE comp = "e" -> p.alpha [] comp = "i" -> p.gamma
    [] comp = "ic" -> p.gamma_c [] comp = "v" -> p.psi

(* the inflow into stage 0 of a chain, from the rows the layout assigns *)
ChainInflow(p, v, t, comp) ==
  LET row(name) == LayoutRow(p, v, name)
      last(c) == row(<<c, n_states_of(p, c) - 1>>)
      i == VSumSeq([k \in 1..p.n_i_states |-> row(<<"i", k - 1>>)], VZero(NAge))
      transmission == [a \in Ages |->
                         FMul(p.beta_0,
                              FSum([b \in Ages |-> FMul(i[b], contact_matrix[b][a])], Ages))]
  IN CASE comp = "e" -> Infection(p, row(<<"s", 0>>), transmission)
       [] comp = "i" -> VScale(p.alpha, last("e"))
       [] comp = "ic" -> VScale(FMul(FMul(p.xi, p.h), p.gamma), last("i"))
       [] comp = "v" -> Vaccination(p, row(<<"s", 0>>), row(<<"r", 0>>), get_vacc_bool(t, p))

(* C11: for a chain of k >= 2 sub-stages with rate p, get_model returns for
   every sub-stage i in 1..k-1 the derivative p*stage_{i-1} - p*stage_i and for
   stage_0 the derivative inflow - p*stage_0, one entry per sub-stage, the
   stages being the state's entries for the names of the compartment list. *)
C11_ErlangChain ==
  (GetModelCalled /\ ~rhs.res.raised) =>
    /\ Len(rhs.res.out) = n_rows(ps) * NAge
    /\ \A comp \in {"e", "i", "ic", "v"} :
         n_states_of(ps, comp) >= 2 =>
           /\ LayoutRow(ps, rhs.res.out, <<comp, 0>>) =
                VSub(ChainInflow(ps, rhs.xs, rhs.ts, comp),
                     VScale(chain_rate(ps, comp), LayoutRow(ps, rhs.xs, <<comp, 0>>)))
           /\ \A j \in 1..(n_states_of(ps, comp) - 1) :
                LayoutRow(ps, rhs.res.out, <<comp, j>>) =
                  VSub(VScale(chain_rate(ps, comp), LayoutRow(ps, rhs.xs, <<comp, j - 1>>)),
                       VScale(chain_rate(ps, comp), LayoutRow(ps, rhs.xs, <<comp, j>>)))

(* the same chain form over the rows get_n_state_val hands to the chain
   builders: it holds of every call that returns *)
ErlangChainOverSlices ==
  (GetModelCalled /\ ~rhs.res.raised) =>
    \A comp \in {"e", "i", "ic", "v"} :
      LET val == get_n_state_val(ps, reshape(rhs.xs, NAge))[comp]
      IN \A j \in 1..(n_states_of(ps, comp) - 1) :
           LayoutRow(ps, rhs.res.out, <<comp, j>>) =
             VScale(chain_rate(ps, comp), VSub(val[j], val[j + 1]))

(* get_n_state_val applied to the row numbers 0, 1, ...: the row it reads for
   each stage *)
rows_read(p) == get_n_state_val(p, [k \in 1..n_rows(p) |-> k - 1])

(* C15: for every chain c and stage j < n_c the row get_n_state_val returns
   as stage j of c is the row the compartment list assigns to c_j, and the
   compartment list assigns exactly one position to every name. *)
C15_SubStagesFollowLayout ==
  GetModelCalled =>
    LET comps == compartments(ps)
        idx == c_idx(comps)
    IN /\ Len(comps) = n_rows(ps)
       /\ \A k, m \in 1..Len(comps) : comps[k] = comps[m] => k = m
       /\ {idx[n] : n \in DOMAIN idx} = 0..(n_rows(ps) - 1)
       /\ \A comp \in {"e", "i", "ic", "v"} :
            \A j \in 0..(n_states_of(ps, comp) - 1) :
              rows_read(ps)[comp][j + 1] = idx[<<comp, j>>]

----------------------------------------------------------------------------
(* Properties of the sampler (SpecSampler) *)

(* C3: after run the stored table and outputs are one joint permutation of the
   evaluated (row, output) pairs in ascending order of output: as many rows as
   were drawn, no pair lost or duplicated, outputs non-decreasing, and the
   output at each position is the one computed for the row at that position. *)
C3_JointSort ==
  spc = "done" =>
    /\ Len(lhs_table) = NSamples /\ Len(sim_output) = NSamples
    /\ Len(lhs_drawn) = NSamples /\ Len(results) = NSamples
    /\ \E f \in IndexPermutations(NSamples) :
         \A i \in 1..NSamples :
           lhs_table[i] = lhs_drawn[f[i]] /\ sim_output[i] = results[f[i]]
    /\ \A i \in 1..(NSamples - 1) : FLeq(sim_output[i], sim_output[i + 1])
    /\ \A i \in 1..NSamples : sim_output[i] = get_output(params0, lhs_table[i]).out

(* a run whose outputs were drawn in descending order, so the sort moved rows *)
C3_Reordered ==
  spc = "done" /\ FLess(results[NSamples], results[1]) /\ lhs_table # lhs_drawn

(* C4: the value a row evaluates to does not depend on the rows evaluated
   before it, for get_output of VaccinatedSampler and for get_r0 and
   get_infected_max of SamplerVaccinated: every output equals the evaluation
   of its row from the dictionary the constructor left, re-evaluating a
   retained row after the run gives its retained output, and the dictionary
   get_r0 and get_infected_max leave is the constructor's with the seven
   values of the last row evaluated. *)
C4_OrderIndependent ==
  /\ spc # "none" =>
       \A k \in 1..Len(results) : results[k] = get_output(params0, lhs_drawn[k]).out
  /\ sim.pc # "none" =>
       \A k \in 1..Len(results) :
         results[k] = objective(sim.get_output, params0, lhs_drawn[k]).out
  /\ recheck.i > 0 => recheck.out = sim_output[recheck.i]
  /\ (sim.pc # "none" /\ results # <<>>) =>
       params = UpdateFromVaccRow(params0, IF recheck.i > 0 THEN lhs_table[recheck.i]
                                           ELSE lhs_drawn[Len(results)])

(* a retained row re-evaluated after rows with other alpha and gamma have
   been written into the shared dictionary *)
C4_RecheckedAfterOthers ==
  /\ recheck.i > 0 /\ params # params0
  /\ \E k \in 1..NSamples : lhs_drawn[k][2] # lhs_table[recheck.i][2]

(* the same for get_r0 of SamplerVaccinated *)
C4_R0RecheckedAfterOthers ==
  /\ sim.get_output = "get_r0" /\ C4_RecheckedAfterOthers

(* the same for get_infected_max of SamplerVaccinated *)
C4_InfectedMaxRecheckedAfterOthers ==
  /\ sim.get_output = "get_infected_max" /\ C4_RecheckedAfterOthers

(* C17: once the constructor has returned, and so whenever the design is
   drawn, column 2 (beta_0) of both bound vectors holds base_r0 divided by the
   eigenvalue computed with alpha and gamma at that bound's values, no bound
   is a placeholder, every other bound entry is as written in the
   constructor, and no drawn row holds a placeholder. *)
C17_NoPlaceholderWhenDrawn ==
  spc \notin {"none", "new"} =>
    /\ \A bound \in {"lower", "upper"} :
         /\ lhs_boundaries[bound][3] # None
         /\ \A k \in 1..Len(lhs_boundaries[bound]) : lhs_boundaries[bound][k] # None
         /\ lhs_boundaries[bound][3] =
              FDiv(base_r0, get_eig_val([params0 EXCEPT !.alpha = InitialBoundaries[bound][1],
                                                        !.gamma = InitialBoundaries[bound][2]]))
         /\ Len(lhs_boundaries[bound]) = Len(InitialBoundaries[bound])
         /\ \A k \in 1..Len(InitialBoundaries[bound]) :
              k # 3 => lhs_boundaries[bound][k] = InitialBoundaries[bound][k]
    /\ \A i \in 1..Len(lhs_drawn) : \A k \in 1..Len(lhs_drawn[i]) : lhs_drawn[i][k] # None

(* the design drawn, with one row at the computed lower beta_0 bound and one
   at the computed upper one *)
C17_DesignDrawn ==
  /\ spc = "evaluating" /\ Len(lhs_drawn) = NSamples
  /\ \E i, j \in 1..NSamples :
       /\ lhs_drawn[i][3] = lhs_boundaries["lower"][3]
       /\ lhs_drawn[j][3] = lhs_boundaries["upper"][3]
       /\ lhs_drawn[i][3] # lhs_drawn[j][3]

----------------------------------------------------------------------------
(* Properties of SimulationVaccinated and its scenario samplers (SpecSimulation) *)

(* C12: the simulation object is constructed and every sampling run it starts
   for a combination of the choices selects an objective for its target
   variable, evaluates every row of its design with it and saves the tables;
   neither the constructor nor a run ends in an exception. *)
C12_EveryScenarioSampled ==
  /\ sim.pc # "TypeError"
  /\ sim.pc # "raised"
  /\ \A k \in 1..Len(runs) :
       sim.pc = "returned" =>
         /\ runs[k].get_output # "unbound"
         /\ runs[k].rows = NSamples
         /\ runs[k].saved

(* C19: once a sampler has been constructed for a scenario, alpha and gamma,
   which the next calibration reads from the same dictionary, are what they
   were before that sampler ran, and calibrating the same R0 again gives the
   transmission rate the scenario was calibrated to. *)
C19_ScenariosIndependent ==
  \A k \in 1..Len(runs) :
    /\ params.alpha = runs[k].alpha
    /\ params.gamma = runs[k].gamma
    /\ FDiv(runs[k].base_r0, get_eig_val(params)) = runs[k].beta

====
